---- MODULE Spec2Model ----
(***************************************************************************)
(* Lifecycle-binding protocol of useGsap (runtime/composables/use-gsap).   *)
(*                                                                         *)
(* The state is what the composable and its collaborators hold: the        *)
(* caller's reactive target references, one record per tween binding made  *)
(* by set/to/from/fromTo (the closure variable `tween`, the value that     *)
(* activationFn received as its `tween` parameter, the pending watch run), *)
(* one record per timeline() call (handle, event hook), and the animation  *)
(* engine seen as a recording double: the factory calls it received, the   *)
(* handles it made and the kills it was asked for.                         *)
(*                                                                         *)
(* The specifications share the variables: Spec drives the tween          *)
(* bindings, FaultSpec drives them with an engine that may throw,          *)
(* TimelineSpec drives timeline(), PluginSpec the plugin registration of   *)
(* useGsap() and PresetSpec the preset resolver.                           *)
(***************************************************************************)
EXTENDS Integers, Sequences, FiniteSets, TLC

\* ---------------------------------------------------------------- bounds
MaxBindings == 1        \* calls of set/to/from/fromTo in one scope
MaxRuns == 3            \* watch runs in total
MaxTimelines == 1       \* calls of timeline() in one component
MaxCtl == 2             \* control-surface calls in total
MaxUses == 3            \* calls of useGsap() in one process
MaxFaultRuns == 2       \* watch runs in total when the engine may throw

\* ---------------------------------------------------------------- values
\* `undefined` as a handle value: `let tween: gsap.core.Tween | undefined`
Undefined == 0

\* What a target reference can resolve to: undefined (a template ref before
\* mount, or after its element left the DOM) or an element.
Elements == {"E1", "E2"}
Targets == {"undefined"} \cup Elements

\* JavaScript truthiness of a resolved target, as tested by `!el`
Truthy(el) == el \in Elements

\* The four tween factories of the engine
Kinds == {"set", "to", "from", "fromTo"}

\* Argument lists after the target, as opaque caller-supplied property maps
\* (StrongTweenVars): (vars) or (options.from, options.to)
ArgsOf(fn) ==
  IF fn = "fromTo" THEN {<<"V1", "V2">>}
  ELSE {<<"V1">>}

\* Handlers external code may subscribe through tlFn
Handlers == {"H1", "H2"}

\* The closure `(tl) => tl.kill()` of timeline()
KillHandler == "kill"

\* Control-surface calls of a timeline
CtlOps == {"play", "pause", "restart", "resume", "isActive",
           "progress", "seek"}

\* The argument the caller passes: progress(value) and seek(value) take a
\* position, the other calls take none.
CtlArg(op) == IF op \in {"progress", "seek"} THEN "half" ELSE "none"

\* Optional timeline configuration (StrongTimelineVars)
TimelineVars == {"undefined", "TV"}

\* An options map with no field (`{}`)
NoOptions == [f \in {} |-> ""]

VARIABLES
  phase,      \* "setup" | "mounted" | "disposed": the owning component/scope
  target,     \* target[b]: current value of the b-th target reference
  bindings,   \* sequence of tween-binding records, in creation order
  made,       \* number of handles the engine has created
  calls,      \* tween factory calls the engine received, in order
  kills,      \* kill() calls the engine received
  fault,      \* a TypeError was thrown by the layer's own code
  timelines,  \* sequence of timeline records, in creation order
  ctl,        \* control-surface calls received by the engine, in order
  thrown,     \* engine faults that left a watch callback, in order
  registered, \* gsap.registerPlugin calls (their plugin lists), in order
  presetIn,   \* preset options handed to the preset resolver
  overrideIn, \* tween overrides handed to the preset resolver
  resolved    \* the options the resolver produced

vars == <<phase, target, bindings, made, calls, kills, fault, timelines, ctl,
          thrown, registered, presetIn, overrideIn, resolved>>

\* The state of the plugin registry and of the preset resolver, which no
\* binding or timeline operation touches
aux == <<registered, presetIn, overrideIn, resolved>>

\* ---------------------------------------------------------------- helpers
Bound == 1..Len(bindings)

RECURSIVE SumRuns(_, _)
SumRuns(bs, n) == IF n = 0 THEN 0 ELSE Len(bs[n].runs) + SumRuns(bs, n - 1)

TotalRuns == SumRuns(bindings, Len(bindings))

KillCount(h) == Cardinality({k \in kills : k.h = h})

CallsBy(b) == {i \in DOMAIN calls : calls[i].by = b}

CallsIn(b, n) == {i \in CallsBy(b) : calls[i].run = n}

\* ---------------------------------------------------------------- tween bindings
\* toValue(el): the reference resolved at this instant
toValue(b) == target[b]

NoCall == [fn |-> "none", el |-> "undefined", args |-> <<>>]

\* Variant: the closure without its `if (!el) return` guard.
updateFactory_noGuard(bd, el) ==
  [fn |-> bd.fn, el |-> el, args |-> bd.args]

\* Variant: every closure calls gsap.to (a copy-paste slip among the four).
updateFactory_toOnly(bd, el) ==
  IF ~Truthy(el) THEN NoCall
  ELSE [fn |-> "to", el |-> el, args |-> bd.args]

\* Variant: the closure creates a handle only while the slot is empty.
updateFactory_ifNone(bd, el) ==
  IF ~Truthy(el) \/ bd.tween # Undefined THEN NoCall
  ELSE [fn |-> bd.fn, el |-> el, args |-> bd.args]

\* The closure each of set/fromTo/to/from passes as updateFactory:
\*   (el) => { if (!el) return; tween = gsap.<fn>(el, ...args) }
\* Result: the engine request it makes, or NoCall.
updateFactory(bd, el) ==
  IF ~Truthy(el) THEN NoCall
  ELSE [fn |-> bd.fn, el |-> el, args |-> bd.args]

\* Variant: the reference is resolved once, when the binding is made, and
\* the watch callback reuses that value.
updateFn_once(bd, b, mk) ==
  LET el == bd.atCall
      req == updateFactory(bd, el)
      n == Len(bd.runs) + 1
  IN  [bd |-> [bd EXCEPT !.runs = Append(@, target[b]),
                         !.dirty = FALSE,
                         !.tween = IF req = NoCall THEN @ ELSE mk + 1],
       call |-> IF req = NoCall THEN <<>>
                ELSE <<[fn |-> req.fn, el |-> req.el, args |-> req.args,
                        handle |-> mk + 1, by |-> b, run |-> n]>>]

\* Variant: a run that finds the target absent clears the slot.
updateFn_clear(bd, b, mk) ==
  LET el == toValue(b)
      req == updateFactory(bd, el)
      n == Len(bd.runs) + 1
  IN  [bd |-> [bd EXCEPT !.runs = Append(@, target[b]),
                         !.dirty = FALSE,
                         !.tween = IF req = NoCall THEN Undefined ELSE mk + 1],
       call |-> IF req = NoCall THEN <<>>
                ELSE <<[fn |-> req.fn, el |-> req.el, args |-> req.args,
                        handle |-> mk + 1, by |-> b, run |-> n]>>]

\* Variant: the teardown callback is registered inside the watch callback,
\* once more on every run.
updateFn_rehook(bd, b, mk) ==
  LET el == toValue(b)
      req == updateFactory(bd, el)
      n == Len(bd.runs) + 1
  IN  [bd |-> [bd EXCEPT !.runs = Append(@, target[b]),
                         !.dirty = FALSE,
                         !.disposers = @ + 1,
                         !.tween = IF req = NoCall THEN @ ELSE mk + 1],
       call |-> IF req = NoCall THEN <<>>
                ELSE <<[fn |-> req.fn, el |-> req.el, args |-> req.args,
                        handle |-> mk + 1, by |-> b, run |-> n]>>]

\* Variant: the binding call hands out the slot itself, so that a handle
\* stored by a later run shows through the returned value.
updateFn_liveRet(bd, b, mk) ==
  LET el == toValue(b)
      req == updateFactory(bd, el)
      n == Len(bd.runs) + 1
  IN  [bd |-> [bd EXCEPT !.runs = Append(@, target[b]),
                         !.dirty = FALSE,
                         !.tween = IF req = NoCall THEN @ ELSE mk + 1,
                         !.ret = IF req = NoCall THEN @ ELSE mk + 1],
       call |-> IF req = NoCall THEN <<>>
                ELSE <<[fn |-> req.fn, el |-> req.el, args |-> req.args,
                        handle |-> mk + 1, by |-> b, run |-> n]>>]

\* updateFn = () => updateFactory(toValue(el)): one run of the watch
\* callback of binding b while the engine has made mk handles. The engine
\* returns a fresh handle, which the closure assigns to the caller-side
\* variable `tween` of set/to/from/fromTo. runs keeps what the reference
\* held at each run.
updateFn(bd, b, mk) ==
  LET el == toValue(b)
      req == updateFactory(bd, el)
      n == Len(bd.runs) + 1
  IN  [bd |-> [bd EXCEPT !.runs = Append(@, target[b]),
                         !.dirty = FALSE,
                         !.tween = IF req = NoCall THEN @ ELSE mk + 1],
       call |-> IF req = NoCall THEN <<>>
                ELSE <<[fn |-> req.fn, el |-> req.el, args |-> req.args,
                        handle |-> mk + 1, by |-> b, run |-> n]>>]

\* activationFn(el, tween, updateFactory): `tween` is a parameter, so it
\* holds the value the argument had at the call; the teardown closure
\* `() => tween?.kill()` reads that parameter. watchPostEffect(updateFn)
\* registers the one watch and schedules its first run (dirty);
\* tryOnScopeDispose registers the one teardown callback.
activationFn(bd, tween) ==
  [bd EXCEPT !.param = tween, !.dirty = TRUE,
             !.watchers = @ + 1, !.disposers = @ + 1]

\* Variant: `tween.kill()` without the optional chaining.
TeardownOutcome_noChain(tw) == IF tw = Undefined THEN "fault" ELSE "kill"

\* `tween?.kill()`: what the teardown callback does with the value it holds
TeardownOutcome(tw) == IF tw = Undefined THEN "noop" ELSE "kill"

\* set / fromTo / to / from. The first run of a post-flush watch effect is
\* made by the host's scheduler: inside the call (sync: server-side setup
\* evaluates the effect body inline) or at the next post-render flush
\* (the client). The call returns the value `tween` has at that moment.
Bind(fn, args, sync) ==
  /\ phase # "disposed"
  /\ Len(bindings) < MaxBindings
  /\ sync => TotalRuns < MaxRuns
  /\ LET b == Len(bindings) + 1
         bd0 == [fn |-> fn, args |-> args, tween |-> Undefined,
                 param |-> Undefined, dirty |-> FALSE, runs |-> <<>>,
                 ret |-> Undefined, ranAtReturn |-> 0,
                 watchers |-> 0, disposers |-> 0,
                 atCall |-> toValue(b)]
         bd1 == activationFn(bd0, bd0.tween)
         r == IF sync THEN updateFn(bd1, b, made)
              ELSE [bd |-> bd1, call |-> <<>>]
     IN  /\ bindings' = Append(bindings, [r.bd EXCEPT !.ret = r.bd.tween,
                                       !.ranAtReturn = Len(r.bd.runs)])
         /\ calls' = calls \o r.call
         /\ made' = made + Len(r.call)
  /\ UNCHANGED <<phase, target, kills, fault, timelines, ctl>>
  /\ UNCHANGED <<thrown, aux>>

\* The caller's reactive reference changes; a watcher that has tracked it
\* (it ran at least once, or its first run is still queued) is queued.
SetTarget(b, v) ==
  /\ phase # "disposed"
  /\ b \in Bound
  /\ v # target[b]
  /\ target' = [target EXCEPT ![b] = v]
  /\ bindings' = [bindings EXCEPT ![b].dirty = TRUE]
  /\ UNCHANGED <<phase, made, calls, kills, fault, timelines, ctl>>
  /\ UNCHANGED <<thrown, aux>>

\* The scheduler runs the queued watch callback of binding b.
WatchRun(b) ==
  /\ phase # "disposed"
  /\ b \in Bound
  /\ bindings[b].dirty
  /\ TotalRuns < MaxRuns
  /\ LET r == updateFn(bindings[b], b, made)
     IN  /\ bindings' = [bindings EXCEPT ![b] = r.bd]
         /\ calls' = calls \o r.call
         /\ made' = made + Len(r.call)
  /\ UNCHANGED <<phase, target, kills, fault, timelines, ctl>>
  /\ UNCHANGED <<thrown, aux>>

\* What the engine may throw on invalid options
Errors == {"EngineError"}

\* Variant: the closure catches the engine's fault, resets the slot and
\* throws a wrapped error.
updateFnThrows_catch(bd, b, e) ==
  LET el == toValue(b)
      req == updateFactory(bd, el)
      n == Len(bd.runs) + 1
  IN  [bd |-> [bd EXCEPT !.runs = Append(@, target[b]),
                         !.dirty = FALSE,
                         !.tween = Undefined],
       thrown |-> <<[by |-> b, run |-> n, fn |-> req.fn, el |-> req.el,
                     args |-> req.args, err |-> e, out |-> "wrapped"]>>]

\* updateFn when gsap.<fn>(el, ...) throws e: the assignment to `tween`
\* is never reached, and neither the closure, updateFn nor activationFn
\* has a try/catch, so e leaves the watch callback as it is. The entry
\* keeps the engine call that threw (err) and what left the callback (out).
updateFnThrows(bd, b, e) ==
  LET el == toValue(b)
      req == updateFactory(bd, el)
      n == Len(bd.runs) + 1
  IN  [bd |-> [bd EXCEPT !.runs = Append(@, target[b]),
                         !.dirty = FALSE],
       thrown |-> <<[by |-> b, run |-> n, fn |-> req.fn, el |-> req.el,
                     args |-> req.args, err |-> e, out |-> e]>>]

\* The scheduler runs the queued watch callback of binding b and the engine
\* throws e from the factory call; the engine is reached only when the
\* closure gets past its guard.
WatchRunThrows(b, e) ==
  /\ phase # "disposed"
  /\ b \in Bound
  /\ bindings[b].dirty
  /\ TotalRuns < MaxRuns
  /\ updateFactory(bindings[b], toValue(b)) # NoCall
  /\ LET r == updateFnThrows(bindings[b], b, e)
     IN  /\ bindings' = [bindings EXCEPT ![b] = r.bd]
         /\ thrown' = thrown \o r.thrown
  /\ UNCHANGED <<phase, target, made, calls, kills, fault, timelines, ctl>>
  /\ UNCHANGED aux

\* ---------------------------------------------------------------- timeline
\* Variant: subscribing does not add the handler (tlFn bound to the
\* wrong member of the hook).
EventHook_on_noop(fns, fn) == fns

\* createEventHook().on(fn): subscribe
EventHook_on(fns, fn) == fns \cup {fn}

\* Variant: off registers the handler, as on does.
EventHook_off_adds(fns, fn) == fns \cup {fn}

\* createEventHook().off(fn): unsubscribe
EventHook_off(fns, fn) == fns \ {fn}

\* Variant: the handle is created lazily, at mount; none exists yet.
TimelineHandle_lazy(mk) == Undefined

\* const tl = gsap.timeline(vars): created in the call itself
TimelineHandle(mk) == mk + 1

\* timeline(vars), called during component setup, so that tryOnMounted
\* registers its callback on the component's mounted hook.
Timeline(v) ==
  /\ phase = "setup"
  /\ Len(timelines) < MaxTimelines
  /\ LET tl == TimelineHandle(made)
         onMount == {}
         fns == EventHook_off(onMount, KillHandler)
     IN  /\ timelines' = Append(timelines,
               [tl |-> tl, vars |-> v, fns |-> fns,
                prereg |-> Cardinality(fns), early |-> {},
                triggers |-> 0, got |-> {}])
         /\ made' = IF tl = Undefined THEN made ELSE made + 1
  /\ UNCHANGED <<phase, target, bindings, calls, kills, fault, ctl>>
  /\ UNCHANGED <<thrown, aux>>

\* tlFn(h): external code subscribes a handler to the mount event; early
\* keeps the handlers that were subscribed before mount.
Subscribe(t, h) ==
  /\ phase # "disposed"
  /\ t \in 1..Len(timelines)
  /\ h \notin timelines[t].fns
  /\ timelines' = [timelines EXCEPT
        ![t].fns = EventHook_on(@, h),
        ![t].early = IF phase = "setup" THEN @ \cup {h} ELSE @]
  /\ UNCHANGED <<phase, target, bindings, made, calls, kills, fault, ctl>>
  /\ UNCHANGED <<thrown, aux>>

\* play/pause/restart/resume/progress(value)/seek(value)/isActive:
\* each is `() => tl.<op>(...)` on the handle captured by timeline()
Control(t, op, value) ==
  /\ phase # "disposed"
  /\ t \in 1..Len(timelines)
  /\ Len(ctl) < MaxCtl
  /\ IF timelines[t].tl = Undefined
     THEN /\ fault' = TRUE
          /\ UNCHANGED ctl
     ELSE /\ ctl' = Append(ctl, [t |-> t, op |-> op, value |-> value,
                                 on |-> timelines[t].tl,
                                 killed |-> KillCount(timelines[t].tl) > 0,
                                 phase |-> phase])
          /\ UNCHANGED fault
  /\ UNCHANGED <<phase, target, bindings, made, calls, kills, timelines>>
  /\ UNCHANGED <<thrown, aux>>

\* The component mounts: each tryOnMounted callback runs
\* onMount.trigger(tl), which calls every subscribed handler with tl.
Mount ==
  /\ phase = "setup"
  /\ phase' = "mounted"
  /\ timelines' = [t \in DOMAIN timelines |->
        [timelines[t] EXCEPT
           !.triggers = @ + 1,
           !.got = @ \cup {<<h, timelines[t].tl>> :
                             h \in timelines[t].fns \ {KillHandler}}]]
  /\ kills' = kills \cup
        {[src |-> "mount", id |-> t, h |-> timelines[t].tl] :
           t \in {u \in DOMAIN timelines : KillHandler \in timelines[u].fns}}
  /\ UNCHANGED <<target, bindings, made, calls, fault, ctl>>
  /\ UNCHANGED <<thrown, aux>>

\* ---------------------------------------------------------------- scope end
\* The owning scope stops: every callback registered by tryOnScopeDispose
\* runs (the teardown of each binding, the unsubscription of each tlFn
\* handler) and the scope's watchers are stopped.
ScopeDispose ==
  /\ phase # "disposed"
  /\ phase' = "disposed"
  /\ kills' = kills \cup
        {[src |-> "teardown", id |-> b, h |-> bindings[b].param] :
           b \in {c \in Bound : TeardownOutcome(bindings[c].param) = "kill"}}
  /\ fault' = (fault \/ \E b \in Bound :
                 TeardownOutcome(bindings[b].param) = "fault")
  /\ bindings' = [b \in DOMAIN bindings |->
                    [bindings[b] EXCEPT !.dirty = FALSE]]
  /\ timelines' = [t \in DOMAIN timelines |->
                    [timelines[t] EXCEPT !.fns = @ \ Handlers]]
  /\ UNCHANGED <<target, made, calls, ctl>>
  /\ UNCHANGED <<thrown, aux>>

\* ---------------------------------------------------------------- plugins
\* What a caller passes as `plugins`: nothing, or a list of plugin objects
PluginArgs ==
  {[given |-> FALSE, list |-> <<>>]} \cup
  {[given |-> TRUE, list |-> l] :
     l \in {<<>>, <<"ScrollTrigger">>, <<"Draggable">>, <<"Flip">>,
            <<"ScrollTrigger", "Draggable">>}}

\* `plugins: object[] = [ScrollTrigger]`: the default applies when the
\* argument is omitted
PluginsParam(p) == IF p.given THEN p.list ELSE <<"ScrollTrigger">>

\* useGsap(plugins): gsap.registerPlugin(...plugins), then the object of
\* binding operations is returned.
UseGsap(p) ==
  /\ Len(registered) < MaxUses
  /\ registered' = Append(registered, PluginsParam(p))
  /\ UNCHANGED <<phase, target, bindings, made, calls, kills, fault,
                 timelines, ctl, thrown, presetIn, overrideIn, resolved>>

\* ---------------------------------------------------------------- presets
\* An options map with the one field f, or with none when v is ""
Field(f, v) == IF v = "" THEN NoOptions ELSE f :> v

\* Nested configuration values (such as a scrollTrigger map)
NestedMaps ==
  {"start" :> "top", "end" :> "bottom",
   ("start" :> "top") @@ ("end" :> "bottom"),
   ("start" :> "center") @@ ("end" :> "bottom")}

\* Options maps (gsap.TweenVars): each of duration, ease and the nested
\* scrollTrigger is present or not
OptionMaps ==
  {Field("duration", d) @@ Field("ease", e) @@ n :
     d \in {"", "1", "2"}, e \in {"", "power1", "power2"},
     n \in {NoOptions} \cup {"scrollTrigger" :> m : m \in NestedMaps}}

\* Variant: fields both maps define as maps are merged recursively.
MergeOptions_deep(preset, override) ==
  [f \in DOMAIN preset \cup DOMAIN override |->
     IF f \notin DOMAIN override THEN preset[f]
     ELSE IF f = "scrollTrigger" /\ f \in DOMAIN preset
          THEN override[f] @@ preset[f]
          ELSE override[f]]

\* Overrides merged on top of the preset's options, field by field: the
\* override's value wins where both define a field.
MergeOptions(preset, override) ==
  [f \in DOMAIN preset \cup DOMAIN override |->
     IF f \in DOMAIN override THEN override[f] ELSE preset[f]]

\* The resolver produces the options handed to the engine from
\* animationOptions (the preset) and tweenValues (the overrides).
ResolvePreset ==
  /\ ~resolved.done
  /\ resolved' = [done |-> TRUE,
                  options |-> MergeOptions(presetIn, overrideIn)]
  /\ UNCHANGED <<phase, target, bindings, made, calls, kills, fault,
                 timelines, ctl, thrown, registered, presetIn, overrideIn>>

\* ---------------------------------------------------------------- specifications
Init ==
  /\ phase = "setup"
  /\ target \in [1..MaxBindings -> Targets]
  /\ bindings = <<>>
  /\ made = 0
  /\ calls = <<>>
  /\ kills = {}
  /\ fault = FALSE
  /\ timelines = <<>>
  /\ ctl = <<>>
  /\ thrown = <<>>
  /\ registered = <<>>
  /\ presetIn = NoOptions
  /\ overrideIn = NoOptions
  /\ resolved = [done |-> FALSE, options |-> NoOptions]

Next ==
  \/ \E fn \in Kinds : \E args \in ArgsOf(fn) : \E sync \in BOOLEAN :
       Bind(fn, args, sync)
  \/ \E b \in 1..MaxBindings : \E v \in Targets : SetTarget(b, v)
  \/ \E b \in 1..MaxBindings : WatchRun(b)
  \/ ScopeDispose

Spec == Init /\ [][Next]_vars

TimelineNext ==
  \/ \E v \in TimelineVars : Timeline(v)
  \/ \E t \in 1..MaxTimelines : \E h \in Handlers : Subscribe(t, h)
  \/ \E t \in 1..MaxTimelines : \E op \in CtlOps :
       Control(t, op, CtlArg(op))
  \/ Mount
  \/ ScopeDispose

TimelineInit == Init /\ target = [b \in 1..MaxBindings |-> "undefined"]

TimelineSpec == TimelineInit /\ [][TimelineNext]_vars

\* The tween bindings with an engine that may throw
FaultNext ==
  \/ \E fn \in Kinds : \E args \in ArgsOf(fn) : \E sync \in BOOLEAN :
       (sync => TotalRuns < MaxFaultRuns) /\ Bind(fn, args, sync)
  \/ \E b \in 1..MaxBindings : \E v \in Targets : SetTarget(b, v)
  \/ \E b \in 1..MaxBindings : TotalRuns < MaxFaultRuns /\ WatchRun(b)
  \/ \E b \in 1..MaxBindings : \E e \in Errors :
       TotalRuns < MaxFaultRuns /\ WatchRunThrows(b, e)
  \/ ScopeDispose

FaultSpec == Init /\ [][FaultNext]_vars

PresetInit ==
  /\ phase = "setup"
  /\ target = [b \in 1..MaxBindings |-> "undefined"]
  /\ bindings = <<>>
  /\ made = 0
  /\ calls = <<>>
  /\ kills = {}
  /\ fault = FALSE
  /\ timelines = <<>>
  /\ ctl = <<>>
  /\ thrown = <<>>
  /\ registered = <<>>
  /\ presetIn \in OptionMaps
  /\ overrideIn \in OptionMaps
  /\ resolved = [done |-> FALSE, options |-> NoOptions]

PresetNext == ResolvePreset

PresetSpec == PresetInit /\ [][PresetNext]_vars

PluginNext == \E p \in PluginArgs : UseGsap(p)

PluginSpec == TimelineInit /\ [][PluginNext]_vars

\* ---------------------------------------------------------------- properties
Tl == 1..Len(timelines)

\* The runs of binding b at which the reference held an element
PresentRuns(b) == {n \in DOMAIN bindings[b].runs : Truthy(bindings[b].runs[n])}

FirstPresent(b) == CHOOSE n \in PresentRuns(b) : \A m \in PresentRuns(b) : n <= m

\* Handles the engine made for binding b that nobody has killed
LiveHandles(b) == {calls[i].handle : i \in {j \in CallsBy(b) :
                                             KillCount(calls[j].handle) = 0}}

\* C1: once the owning scope has ended, the handle that is current in each
\* binding's slot has been killed by the teardown callback, exactly once.
C1_TeardownKillsCurrentOnce ==
  phase = "disposed" =>
    \A b \in Bound :
      bindings[b].tween # Undefined => KillCount(bindings[b].tween) = 1

\* C2: the engine factory is never invoked on a watch run at which the
\* target reference resolves to an absent value: every factory call carries
\* a present target, and a run that saw an absent target made no call.
C2_NoEngineCallOnAbsent ==
  /\ \A i \in DOMAIN calls : calls[i].fn \in Kinds /\ Truthy(calls[i].el)
  /\ \A i \in DOMAIN calls :
       /\ calls[i].by \in Bound
       /\ calls[i].run \in DOMAIN bindings[calls[i].by].runs
       /\ Truthy(bindings[calls[i].by].runs[calls[i].run])

C2_Witness ==
  \E b \in Bound : \E n, m \in DOMAIN bindings[b].runs :
    /\ ~Truthy(bindings[b].runs[n])
    /\ CallsIn(b, n) = {}
    /\ CallsIn(b, m) # {}

\* C3: at most one handle created by a binding is live (created and not
\* killed) at any time.
C3_AtMostOneLiveHandle ==
  \A b \in Bound : Cardinality(LiveHandles(b)) <= 1

\* C4: for a binding whose target is absent on the initial watch run, the
\* engine factory is invoked zero times before the first run at which the
\* target is present and exactly once on that run.
C4_OnceAtFirstPresentRun ==
  \A b \in Bound :
    (Len(bindings[b].runs) >= 1 /\ ~Truthy(bindings[b].runs[1])) =>
      LET cb == CallsBy(b)
      IN  IF PresentRuns(b) = {} THEN cb = {}
          ELSE LET k == FirstPresent(b)
                   ck == {i \in cb : calls[i].run = k}
               IN  /\ \A i \in cb : calls[i].run >= k
                   /\ Cardinality(ck) = 1
                   /\ \A i \in ck : calls[i].el = bindings[b].runs[k]

C4_Witness ==
  \E b \in Bound :
    /\ Len(bindings[b].runs) = 3
    /\ ~Truthy(bindings[b].runs[1])
    /\ ~Truthy(bindings[b].runs[2])
    /\ Truthy(bindings[b].runs[3])
    /\ Cardinality(CallsBy(b)) = 1

\* The one factory call binding b made in its initial run is the call of
\* the binding's own kind with the element seen at that run and the
\* caller's maps.
InitialCallExact(b, el) ==
  /\ Cardinality(CallsIn(b, 1)) = 1
  /\ \A i \in CallsIn(b, 1) :
       /\ calls[i].fn = bindings[b].fn
       /\ calls[i].el = el
       /\ calls[i].args = bindings[b].args

\* C5 (as stated): for a target that resolves to an element E when
\* to/set/from/fromTo is called, the engine factory has been invoked exactly
\* once, with E and the caller's maps, in the initial watch run, before the
\* call returns.
C5_CalledBeforeReturn ==
  \A b \in Bound :
    Truthy(bindings[b].atCall) =>
      /\ bindings[b].ranAtReturn = 1
      /\ InitialCallExact(b, bindings[b].atCall)

\* C5 (amended): for a target that resolves to an element E at the
\* binding's initial watch run, the engine factory of the binding's kind is
\* invoked exactly once in that run, with E and the caller's maps unchanged;
\* the run itself may take place after the call has returned.
C5_InitialRunCallsOnce ==
  \A b \in Bound :
    (Len(bindings[b].runs) >= 1 /\ Truthy(bindings[b].runs[1])) =>
      InitialCallExact(b, bindings[b].runs[1])

C5_Witness ==
  \E b \in Bound :
    /\ bindings[b].fn # "to"
    /\ Truthy(bindings[b].atCall)
    /\ bindings[b].ranAtReturn = 0
    /\ Len(bindings[b].runs) >= 1
    /\ Truthy(bindings[b].runs[1])
    /\ CallsIn(b, 1) # {}

\* C6: for a target that resolves to an element when the binding call is
\* made, the value the call returns is the handle the engine created for
\* that binding, not undefined.
C6_ReturnsEngineHandle ==
  \A b \in Bound :
    Truthy(bindings[b].atCall) =>
      /\ bindings[b].ret # Undefined
      /\ \E i \in CallsBy(b) : calls[i].handle = bindings[b].ret

\* C7: when the scope has ended, a binding for which no handle was ever
\* created has had its teardown run without a fault and without any kill
\* being issued by it.
C7_TeardownWithoutHandle ==
  phase = "disposed" =>
    \A b \in Bound :
      CallsBy(b) = {} =>
        /\ ~fault
        /\ ~\E k \in kills : k.src = "teardown" /\ k.id = b

C7_Witness ==
  /\ phase = "disposed"
  /\ \E b \in Bound :
       /\ Len(bindings[b].runs) >= 2
       /\ PresentRuns(b) = {}
       /\ CallsBy(b) = {}
       /\ bindings[b].tween = Undefined

\* C8: timeline() creates its handle in the call; every control call made
\* before mount acts on that handle, which exists and is not killed, and no
\* control call faults.
C8_ControlsBeforeMount ==
  /\ ~fault
  /\ \A t \in Tl : timelines[t].tl \in 1..made
  /\ \A i \in DOMAIN ctl :
       ctl[i].phase = "setup" =>
         /\ ctl[i].on = timelines[ctl[i].t].tl
         /\ ~ctl[i].killed

C8_Witness ==
  /\ phase = "setup"
  /\ Len(ctl) >= 2
  /\ ctl[1].op = "seek"
  /\ ctl[2].op = "play"
  /\ ctl[1].phase = "setup"
  /\ ctl[2].phase = "setup"

\* C9: the mount event hook of a timeline is triggered at most once, not
\* before mount and once at mount, and every handler subscribed through
\* tlFn before mount has then received the handle created by the same
\* timeline() call (and no other handle).
C9_TriggeredOnceAtMount ==
  \A t \in Tl :
    /\ timelines[t].triggers <= 1
    /\ phase = "setup" => (timelines[t].triggers = 0 /\ timelines[t].got = {})
    /\ phase = "mounted" => timelines[t].triggers = 1
    /\ timelines[t].triggers = 1 =>
         \A h \in timelines[t].early : <<h, timelines[t].tl>> \in timelines[t].got
    /\ \A g \in timelines[t].got : g[2] = timelines[t].tl

C9_Witness ==
  \E t \in Tl :
    /\ phase = "mounted"
    /\ timelines[t].triggers = 1
    /\ timelines[t].early = Handlers
    /\ timelines[t].got = {<<h, timelines[t].tl>> : h \in Handlers}

\* C10 (as stated): timeline() pre-registers exactly one handler on its
\* mount hook, and once the hook has fired the timeline handle has been
\* killed.
C10_KilledOnMount ==
  \A t \in Tl :
    /\ timelines[t].prereg = 1
    /\ timelines[t].triggers >= 1 => KillCount(timelines[t].tl) >= 1

\* C10 (amended): timeline() leaves no handler of its own on the mount
\* hook (off removes a handler that was never subscribed), and the timeline
\* handle is not killed by the hook firing or at any other time.
C10_NoHandlerNoKill ==
  \A t \in Tl :
    /\ timelines[t].prereg = 0
    /\ KillHandler \notin timelines[t].fns
    /\ KillCount(timelines[t].tl) = 0

C10_Witness ==
  \E t \in Tl :
    /\ timelines[t].triggers = 1
    /\ timelines[t].got # {}
    /\ KillCount(timelines[t].tl) = 0

\* C11: across any sequence of useGsap() calls, registerPlugin is performed
\* at the first use only (with that call's plugin list, [ScrollTrigger] by
\* default) and not again by later calls.
C11_RegisteredOnce == Len(registered) <= 1

\* C12: the resolved options have the override's value for every field the
\* override defines and the preset's value for every other field the preset
\* defines, and no further field; nested maps are replaced whole.
C12_ShallowMerge ==
  resolved.done =>
    /\ DOMAIN resolved.options = DOMAIN presetIn \cup DOMAIN overrideIn
    /\ \A f \in DOMAIN overrideIn : resolved.options[f] = overrideIn[f]
    /\ \A f \in DOMAIN presetIn \ DOMAIN overrideIn :
         resolved.options[f] = presetIn[f]

\* preset {duration:1, ease:"power1"} with override {duration:2} has been
\* resolved to {duration:2, ease:"power1"}
C12_Witness ==
  /\ resolved.done
  /\ presetIn = ("duration" :> "1") @@ ("ease" :> "power1")
  /\ overrideIn = ("duration" :> "2")
  /\ resolved.options = ("duration" :> "2") @@ ("ease" :> "power1")

\* C13: a watch run that finds the target absent after a handle was created
\* leaves the binding's slot as it was, kills nothing and makes no engine
\* call.
C13_AbsentRunLeavesSlot ==
  [][\A b \in Bound :
       (/\ Len(bindings'[b].runs) = Len(bindings[b].runs) + 1
        /\ ~Truthy(target[b])
        /\ bindings[b].tween # Undefined)
       => (/\ bindings'[b].tween = bindings[b].tween
           /\ kills' = kills
           /\ calls' = calls
           /\ made' = made)]_vars

C13_Witness ==
  \E b \in Bound :
    /\ Len(bindings[b].runs) >= 2
    /\ ~Truthy(bindings[b].runs[Len(bindings[b].runs)])
    /\ target[b] = "undefined"
    /\ bindings[b].tween # Undefined
    /\ KillCount(bindings[b].tween) = 0
    /\ \E i \in CallsBy(b) : calls[i].handle = bindings[b].tween

\* C14: every watch run that finds the target present makes one factory
\* call and stores the new handle in the slot; the earlier handles are not
\* killed: after n such runs the engine was called n times (a call in each
\* of them, n calls in all), the handles are all different, the slot holds
\* the handle of the latest call and no handle of the binding is killed
\* before the scope ends.
C14_NewHandleEachPresentRun ==
  \A b \in Bound :
    LET cb == CallsBy(b)
        pr == PresentRuns(b)
    IN  /\ \A n \in pr : \E i \in cb : calls[i].run = n
        /\ Cardinality(cb) = Cardinality(pr)
        /\ \A i, j \in cb : i < j => calls[i].handle # calls[j].handle
        /\ pr # {} =>
             \E i \in cb : /\ calls[i].handle = bindings[b].tween
                           /\ \A j \in cb : calls[j].run <= calls[i].run
        /\ phase # "disposed" =>
             \A i \in cb : \A k \in kills : k.h # calls[i].handle

C14_Witness ==
  \E b \in Bound :
    /\ Cardinality(PresentRuns(b)) = 3
    /\ Cardinality(LiveHandles(b)) = 3
    /\ bindings[b].tween \in LiveHandles(b)

\* C15: every binding has exactly one teardown callback and exactly one
\* watch, registered when it was made, however many times the watch has
\* run.
C15_OneTeardownOneWatch ==
  \A b \in Bound : bindings[b].disposers = 1 /\ bindings[b].watchers = 1

C15_Witness ==
  \E b \in Bound :
    /\ Len(bindings[b].runs) = 3
    /\ bindings[b].disposers = 1
    /\ bindings[b].watchers = 1

\* C17: the value a binding call returned is the slot's value at the
\* return: undefined when the target was absent at the call, and never a
\* handle created by a watch run that took place after the return.
C17_ReturnIsSnapshot ==
  \A b \in Bound :
    /\ ~Truthy(bindings[b].atCall) => bindings[b].ret = Undefined
    /\ \A i \in CallsBy(b) :
         calls[i].run > bindings[b].ranAtReturn =>
           calls[i].handle # bindings[b].ret

C17_Witness ==
  \E b \in Bound :
    /\ ~Truthy(bindings[b].atCall)
    /\ bindings[b].ret = Undefined
    /\ bindings[b].tween # Undefined
    /\ CallsBy(b) # {}

\* C16: when the engine factory throws during a watch run, the fault leaves
\* the watch callback unmodified, the binding's slot keeps the value it had
\* before the run, and the run makes that one engine call only (no retry,
\* no handle, no kill).
C16_EngineFaultPropagates ==
  [][thrown' # thrown =>
       /\ Len(thrown') = Len(thrown) + 1
       /\ LET t == thrown'[Len(thrown')]
          IN  /\ t.out = t.err
              /\ t.by \in Bound
              /\ t.run = Len(bindings[t.by].runs) + 1
              /\ bindings'[t.by].tween = bindings[t.by].tween
       /\ calls' = calls
       /\ made' = made
       /\ kills' = kills]_vars

C16_Witness ==
  \E i \in DOMAIN thrown :
    /\ thrown[i].run = 2
    /\ thrown[i].out = thrown[i].err
    /\ bindings[thrown[i].by].tween # Undefined
    /\ Cardinality(CallsBy(thrown[i].by)) = 1

====
